---------------------------- MODULE Spec2Model ----------------------------
(***************************************************************************)
(* File-level three-way merge core (mercurial/filemerge.py): the tool      *)
(* picker, the capability filter, the backup manager, the premerge driver, *)
(* the internal strategies, the external driver, the post-check and the    *)
(* orchestrator behind premerge() and filemerge().                         *)
(***************************************************************************)
EXTENDS Integers, Sequences, FiniteSets, TLC

VARIABLES
    pc,          \* "idle" | "picked" | "start" | "premerged" | "merged" | "resolved"
    cfg,         \* ui configuration, environment and host facts of the run
    req,         \* the merge request (fcd, fco, fca, labels, wctx)
    wfile,       \* the destination file in the working context
    back,        \* the backup file of the destination
    sidecar,     \* the files <fd>.local, <fd>.other, <fd>.base
    temps,       \* temp files of the external driver that still exist
    xcmd,        \* the command line the external driver last launched
    result,      \* what the last call returned or raised
    picked,      \* (tool, toolpath) the last _picktool call returned
    pin,         \* (path, binary, symlink, changedelete) given to _picktool
    ran,         \* the steps the last call went through
    defaultconflictlabels   \* the module-level list _defaultconflictlabels

vars == <<pc, cfg, req, wfile, back, sidecar, temps, xcmd, result, picked, pin,
          ran, defaultconflictlabels>>

(***************************************************************************)
(* Values                                                                  *)
(***************************************************************************)
\* Python's None, where a string is expected
NoneV == "<None>"

\* internal tool merge types
nomerge == "nomerge"
mergeonly == "mergeonly"
fullmerge == "fullmerge"

\* the table the @internaltool decorators fill: name -> (mergetype,
\* has an onfailure message, has a precheck)
internaltool ==
    [n \in {"prompt", "local", "other", "fail", "merge", "merge3", "union",
            "merge-local", "merge-other", "tagmerge", "dump", "forcedump",
            "abort"} |->
        CASE n \in {"prompt", "local", "other", "fail"} ->
                [name |-> n, mergetype |-> nomerge, onfailure |-> FALSE, precheck |-> FALSE]
          [] n \in {"merge", "merge3", "union"} ->
                [name |-> n, mergetype |-> fullmerge, onfailure |-> TRUE, precheck |-> TRUE]
          [] n \in {"merge-local", "merge-other"} ->
                [name |-> n, mergetype |-> mergeonly, onfailure |-> FALSE, precheck |-> TRUE]
          [] n = "tagmerge" ->
                [name |-> n, mergetype |-> mergeonly, onfailure |-> TRUE, precheck |-> FALSE]
          [] n = "forcedump" ->
                [name |-> n, mergetype |-> mergeonly, onfailure |-> FALSE, precheck |-> FALSE]
          [] n \in {"dump", "abort"} ->
                [name |-> n, mergetype |-> fullmerge, onfailure |-> FALSE, precheck |-> FALSE]]

\* internals[":name"] and internals["internal:name"] are the same entry
loadinternalmerge ==
    LET keys == {<<":" \o n, n>> : n \in DOMAIN internaltool}
                \cup {<<"internal:" \o n, n>> : n \in DOMAIN internaltool}
    IN  [k \in {p[1] : p \in keys} |->
            internaltool[(CHOOSE p \in keys : p[1] = k)[2]]]

internals == loadinternalmerge

(***************************************************************************)
(* Configuration                                                           *)
(***************************************************************************)
\* what the merge-tools section gives for a tool it does not mention
tooldefaults(t) ==
    [name |-> t, priority |-> 0, disabled |-> FALSE, symlink |-> FALSE,
     binary |-> FALSE, gui |-> FALSE, premerge |-> "",
     args |-> <<"$local", "$base", "$other">>,
     check |-> {}, checkconflicts |-> FALSE, checkchanged |-> FALSE,
     fixeol |-> FALSE]

\* the merge-tools entries of tool t (c.mergetools lists the tools of the
\* section in the order ui.configitems yields them)
toolsection(c, t) ==
    IF \E i \in DOMAIN c.mergetools : c.mergetools[i].name = t
    THEN c.mergetools[CHOOSE i \in DOMAIN c.mergetools : c.mergetools[i].name = t]
    ELSE tooldefaults(t)

_toolstr(c, tool, part) == toolsection(c, tool)[part]

_toolbool(c, tool, part) == toolsection(c, tool)[part]

_toollist(c, tool, part) == toolsection(c, tool)[part]

\* util.shellquote: the path between single quotes
shellquote(s) == IF s = NoneV THEN "''" ELSE "'" \o s \o "'"

\* util.findexe over the executables the host has
findexternaltool(c, tool) ==
    IF tool \in c.installed THEN "/usr/bin/" \o tool ELSE NoneV

_findtool(c, tool) ==
    IF tool \in DOMAIN internals THEN tool ELSE findexternaltool(c, tool)

\* match.match(repo.root, "", [pat]) applied to path
mf(pat, path) ==
    \/ pat = "**"
    \/ pat = "**.txt" /\ path \in {"a.txt"}
    \/ pat = "**.bin" /\ path \in {"b.bin"}

(***************************************************************************)
(* Tool picker                                                             *)
(***************************************************************************)
\* mutant: any internal tool is taken to support change/delete
supportscd_anyinternal(tool) == tool \in DOMAIN internals

supportscd(tool) ==
    tool \in DOMAIN internals /\ internals[tool].mergetype = nomerge

\* mutant: the binary capability is not checked
check_nobinary(c, tool, pat, symlink, binary, changedelete) ==
    IF _findtool(c, tool) = NoneV THEN FALSE
    ELSE IF symlink /\ ~_toolbool(c, tool, "symlink") THEN FALSE
    ELSE IF changedelete /\ ~(tool \in DOMAIN internals
                               /\ internals[tool].mergetype = nomerge) THEN FALSE
    ELSE IF ~c.gui /\ _toolbool(c, tool, "gui") THEN FALSE
    ELSE TRUE

check(c, tool, pat, symlink, binary, changedelete) ==
    IF _findtool(c, tool) = NoneV THEN FALSE
    ELSE IF symlink /\ ~_toolbool(c, tool, "symlink") THEN FALSE
    ELSE IF binary /\ ~_toolbool(c, tool, "binary") THEN FALSE
    ELSE IF changedelete /\ ~supportscd(tool) THEN FALSE
    ELSE IF ~c.gui /\ _toolbool(c, tool, "gui") THEN FALSE
    ELSE TRUE

\* Python's order on the str values used as tool names (code point order)
strorder ==
    <<":merge", ":merge3", ":other", ":union", "hgmerge", "kdiff3", "meld", "vimdiff">>

strrank(s) == CHOOSE i \in DOMAIN strorder : strorder[i] = s

\* tuple comparison of (-p, tool) entries
tuplelt(x, y) == x[1] < y[1] \/ (x[1] = y[1] /\ strrank(x[2]) < strrank(y[2]))

RECURSIVE sorted(_)
sorted(S) ==
    IF S = {} THEN <<>>
    ELSE LET m == CHOOSE x \in S : \A y \in S \ {x} : tuplelt(x, y)
         IN  <<m>> \o sorted(S \ {m})

\* mutant: sorted by (priority, name), the sign of the priority forgotten
pooltools_ascending(c) ==
    LET s == sorted({<<c.mergetools[i].priority, c.mergetools[i].name>> :
                       i \in {j \in DOMAIN c.mergetools : ~c.mergetools[j].disabled}})
    IN  s

\* lines 193-202: the enabled tools of merge-tools, sorted by (-priority, name)
pooltools(c) ==
    sorted({<<0 - c.mergetools[i].priority, c.mergetools[i].name>> :
              i \in {j \in DOMAIN c.mergetools : ~c.mergetools[j].disabled}})

poolnames(c) == {c.mergetools[i].name : i \in DOMAIN c.mergetools}

\* lines 203-210: the candidates of the pool step, in the order tried
poolcandidates(c, changedelete) ==
    LET ts == [i \in DOMAIN pooltools(c) |-> pooltools(c)[i][2]]
        withui == IF c.uimerge # "" THEN <<c.uimerge>> \o ts ELSE ts
    IN  withui \o <<"hgmerge">>

\* mutant: the last candidate that passes the check is returned
pickfrompool_lastcapable(c, path, binary, symlink, changedelete) ==
    IF c.uimerge # "" /\ c.uimerge \notin poolnames(c) /\ ~changedelete
    THEN <<c.uimerge, c.uimerge>>
    ELSE LET tools == poolcandidates(c, changedelete)
             ok == {i \in DOMAIN tools :
                      check(c, tools[i], NoneV, symlink, binary, changedelete)}
         IN  IF ok # {}
             THEN LET t == tools[CHOOSE i \in ok : \A j \in ok : i >= j]
                  IN  <<t, shellquote(_findtool(c, t))>>
             ELSE IF symlink \/ binary \/ changedelete
                  THEN <<":prompt", NoneV>>
                  ELSE <<":merge", NoneV>>

\* lines 192-222
pickfrompool(c, path, binary, symlink, changedelete) ==
    IF c.uimerge # "" /\ c.uimerge \notin poolnames(c) /\ ~changedelete
    THEN <<c.uimerge, c.uimerge>>
    ELSE LET tools == poolcandidates(c, changedelete)
             ok == {i \in DOMAIN tools :
                      check(c, tools[i], NoneV, symlink, binary, changedelete)}
         IN  IF ok # {}
             THEN LET t == tools[CHOOSE i \in ok : \A j \in ok : i <= j]
                  IN  <<t, shellquote(_findtool(c, t))>>
             ELSE IF symlink \/ binary \/ changedelete
                  THEN <<":prompt", NoneV>>
                  ELSE <<":merge", NoneV>>

\* lines 185-190
pickfrompatterns(c, path, binary, symlink, changedelete) ==
    LET ok == {i \in DOMAIN c.patterns :
                 /\ mf(c.patterns[i][1], path)
                 /\ check(c, c.patterns[i][2], c.patterns[i][1], symlink, FALSE,
                          changedelete)}
    IN  IF ok # {}
        THEN LET tool == c.patterns[CHOOSE i \in ok : \A j \in ok : i <= j][2]
             IN  <<tool, shellquote(_findtool(c, tool))>>
        ELSE pickfrompool(c, path, binary, symlink, changedelete)

\* mutant: a surviving pattern is taken before HGMERGE is looked at
pickfromenv_patternsfirst(c, path, binary, symlink, changedelete) ==
    IF c.HGMERGE # ""
         /\ ~\E i \in DOMAIN c.patterns :
                /\ mf(c.patterns[i][1], path)
                /\ check(c, c.patterns[i][2], c.patterns[i][1], symlink, FALSE,
                         changedelete)
    THEN IF changedelete /\ ~supportscd(c.HGMERGE)
         THEN <<":prompt", NoneV>>
         ELSE <<c.HGMERGE, c.HGMERGE>>
    ELSE pickfrompatterns(c, path, binary, symlink, changedelete)

\* lines 177-183
pickfromenv(c, path, binary, symlink, changedelete) ==
    IF c.HGMERGE # ""
    THEN IF changedelete /\ ~supportscd(c.HGMERGE)
         THEN <<":prompt", NoneV>>
         ELSE <<c.HGMERGE, c.HGMERGE>>
    ELSE pickfrompatterns(c, path, binary, symlink, changedelete)

_picktool(c, path, binary, symlink, changedelete) ==
    IF c.forcemerge # ""
    THEN LET toolpath == _findtool(c, c.forcemerge)
         IN  IF changedelete /\ ~supportscd(toolpath)
             THEN <<":prompt", NoneV>>
             ELSE IF toolpath # NoneV
                  THEN <<c.forcemerge, shellquote(toolpath)>>
                  ELSE <<c.forcemerge, c.forcemerge>>
    ELSE pickfromenv(c, path, binary, symlink, changedelete)


(***************************************************************************)
(* File contents                                                           *)
(*                                                                         *)
(* A file body is a sequence of lines <<kind, text, eol>>: kind "text" for *)
(* an ordinary line, "nul" for a line holding a NUL byte, and the conflict *)
(* marker prefixes for the lines simplemerge inserts.                      *)
(***************************************************************************)
textfile(t, eol) == << <<"text", t, eol>> >>

binaryfile == << <<"nul", "z", "">> >>

\* util.binary: a NUL byte in the data
isbinarydata(data) == \E i \in DOMAIN data : data[i][1] = "nul"

\* isbinary() of a file context; an absentfilectx is never binary
isbinary(f) == ~f.absent /\ isbinarydata(f.data)

_eoltype(data) ==
    IF isbinarydata(data) THEN NoneV
    ELSE IF \E i \in DOMAIN data : data[i][3] = "\r\n" THEN "\r\n"
    ELSE IF \E i \in DOMAIN data : data[i][3] = "\r" THEN "\r"
    ELSE IF \E i \in DOMAIN data : data[i][3] = "\n" THEN "\n"
    ELSE NoneV

\* data.replace(style, tostyle) on the line ends
replaceeol(data, style, tostyle) ==
    [i \in DOMAIN data |->
        IF data[i][3] = style THEN <<data[i][1], data[i][2], tostyle>> ELSE data[i]]

\* _matcheol(file, back): the new body of the file
_matcheol(data, backdata) ==
    LET tostyle == _eoltype(backdata)
        style == _eoltype(data)
    IN  IF tostyle # NoneV /\ style # NoneV
        THEN replaceeol(data, style, tostyle)
        ELSE data

\* mutant: the scan looks for the two outer markers only
hasconflictmarkers_outeronly(data) ==
    \E i \in DOMAIN data :
        /\ i = 1 \/ data[i - 1][3] \in {"\n", "\r\n"}
        /\ data[i][1] \in {"<<<<<<< ", ">>>>>>> "}

\* re.search("^(<<<<<<< .*|=======|>>>>>>> .*)$", data, re.MULTILINE): "^"
\* stands at the start and after a "\n", "." takes a "\r", and "$" stands
\* only before a "\n" or at the end
hasconflictmarkers(data) ==
    \E i \in DOMAIN data :
        /\ i = 1 \/ data[i - 1][3] \in {"\n", "\r\n"}
        /\ \/ data[i][1] \in {"<<<<<<< ", ">>>>>>> "}
           \/ /\ data[i][1] = "======="
              /\ data[i][2] = ""
              /\ \/ data[i][3] = "\n"
                 \/ data[i][3] = "" /\ i = Len(data)

\* the body simplemerge writes when it leaves a conflict region
conflictbody(ldata, bdata, odata, labels) ==
    << <<"<<<<<<< ", labels[1], "\n">> >> \o ldata
      \o (IF Len(labels) > 2
          THEN << <<"||||||| ", labels[3], "\n">> >> \o bdata
          ELSE <<>>)
      \o << <<"=======", "", "\n">> >> \o odata
      \o << <<">>>>>>> ", labels[2], "\n">> >>

\* simplemerge.simplemerge(ui, fcd, fca, fco, label, mode / localorother):
\* (status, body written to fcd).  sm says how a region both sides changed
\* comes out ("clean" or "conflict") and whether binary input is refused
\* ("abort").
simplemerge(ldata, bdata, odata, labels, mode, sm) ==
    IF sm = "abort" THEN [raised |-> "Abort", r |-> 1, data |-> ldata]
    ELSE IF ldata = bdata THEN [raised |-> "", r |-> 0, data |-> odata]
    ELSE IF odata = bdata \/ odata = ldata THEN [raised |-> "", r |-> 0, data |-> ldata]
    ELSE IF sm = "clean" THEN [raised |-> "", r |-> 0, data |-> ldata \o odata]
    ELSE IF mode = "union" THEN [raised |-> "", r |-> 0, data |-> ldata \o odata]
    ELSE IF mode = "local" THEN [raised |-> "", r |-> 0, data |-> ldata]
    ELSE IF mode = "other" THEN [raised |-> "", r |-> 0, data |-> odata]
    ELSE [raised |-> "", r |-> 1, data |-> conflictbody(ldata, bdata, odata, labels)]

\* the outcomes simplemerge can have on these inputs
smchoices(ldata, bdata, odata) ==
    (IF isbinarydata(ldata) \/ isbinarydata(bdata) \/ isbinarydata(odata)
     THEN {"abort"} ELSE {})
    \cup (IF ldata = bdata \/ odata = bdata \/ odata = ldata
          THEN {"clean"} ELSE {"clean", "conflict"})

(***************************************************************************)
(* File contexts of a request                                              *)
(***************************************************************************)
absentfilectx == [absent |-> TRUE, data |-> <<>>, flags |-> ""]

filectx(data, flags) == [absent |-> FALSE, data |-> data, flags |-> flags]

\* a write to, or a removal of, a file of the working context
writefile(data, flags) == [exists |-> TRUE, data |-> data, flags |-> flags]

removedfile == [exists |-> FALSE, data |-> <<>>, flags |-> ""]

(***************************************************************************)
(* Python values of the outcome: an int or None, a bool or None            *)
(***************************************************************************)
pyint(n) == [none |-> FALSE, v |-> n]
pynoneint == [none |-> TRUE, v |-> 0]
pybool(b) == [none |-> FALSE, v |-> b]
pynonebool == [none |-> TRUE, v |-> FALSE]

returned(completed, status, deleted) ==
    [kind |-> "return", completed |-> completed, status |-> status,
     deleted |-> deleted]

raisederror(err) == [kind |-> "raise", error |-> err]

(***************************************************************************)
(* The files and lists a call works on, gathered in one record m:          *)
(* wfile, back, sidecar, temps, xcmd as the variables of the same name,    *)
(* dlabels the list _defaultconflictlabels, rlabels the caller's list, ran *)
(* the steps gone through.                                                 *)
(***************************************************************************)
nocmd == [tool |-> NoneV]

\* what a strategy hands back: (needcheck, r, deleted), or an error
stratreturn(m, needcheck, r, deleted) ==
    [m |-> m, needcheck |-> needcheck, r |-> r, deleted |-> deleted, raised |-> ""]

stratraise(m, err) ==
    [m |-> m, needcheck |-> FALSE, r |-> 1, deleted |-> pybool(FALSE), raised |-> err]

step(m, name) == [m EXCEPT !.ran = @ \cup {name}]

\* fcd.data() and fcd.flags(): an absentfilectx has none, a working file
\* context reads the file
fcddata(m, rq) == IF rq.fcd.absent THEN <<>> ELSE m.wfile.data

fcdflags(m, rq) == IF rq.fcd.absent THEN "" ELSE m.wfile.flags

\* the label list a call works with: its elements and whose list it is
\* ("default": the module-level list, "caller": the list of the request,
\* "own": a list made in this call)
labellist(m, labs) ==
    IF labs.owner = "default" THEN m.dlabels
    ELSE IF labs.owner = "caller" THEN m.rlabels
    ELSE labs.own

\* if len(labels) < 3: labels.append("base")
appendbase(m, labs) ==
    IF Len(labellist(m, labs)) < 3
    THEN IF labs.owner = "default"
         THEN [m |-> [m EXCEPT !.dlabels = Append(@, "base")], labs |-> labs]
         ELSE IF labs.owner = "caller"
         THEN [m |-> [m EXCEPT !.rlabels = Append(@, "base")], labs |-> labs]
         ELSE [m |-> m, labs |-> [labs EXCEPT !.own = Append(@, "base")]]
    ELSE [m |-> m, labs |-> labs]

\* _formatconflictmarker: the label, a colon and the rendered template
_formatconflictmarker(label) == label \o ": rev"

_formatlabels(labels) ==
    [i \in DOMAIN labels |-> _formatconflictmarker(labels[i])]

(***************************************************************************)
(* Internal strategies without merge                                       *)
(***************************************************************************)
\* mutant: the local strategy never reports the file as deleted
_ilocal_notdeleted(m, rq) ==
    [m |-> step(m, "local"), r |-> 0, deleted |-> FALSE, raised |-> ""]

_ilocal(m, rq) == [m |-> step(m, "local"), r |-> 0, deleted |-> rq.fcd.absent, raised |-> ""]

\* mutant: the other side's data is written with the destination's flags
_iother_keepflags(m, rq) ==
    IF rq.fco.absent
    THEN [m |-> [step(m, "other") EXCEPT !.wfile = removedfile],
          r |-> 0, deleted |-> TRUE, raised |-> ""]
    ELSE [m |-> [step(m, "other") EXCEPT !.wfile = writefile(rq.fco.data, fcdflags(m, rq))],
          r |-> 0, deleted |-> FALSE, raised |-> ""]

\* mutant: an absent other side leaves the destination in place
_iother_nodelete(m, rq) ==
    IF rq.fco.absent
    THEN [m |-> step(m, "other"), r |-> 0, deleted |-> FALSE, raised |-> ""]
    ELSE [m |-> [step(m, "other") EXCEPT !.wfile = writefile(rq.fco.data, rq.fco.flags)],
          r |-> 0, deleted |-> FALSE, raised |-> ""]

\* _underlyingfctxifabsent(fcd).remove() / .write(): the file of the working
\* context at fcd's path, whether or not fcd is an absentfilectx
_iother(m, rq) ==
    IF rq.fco.absent
    THEN [m |-> [step(m, "other") EXCEPT !.wfile = removedfile],
          r |-> 0, deleted |-> TRUE, raised |-> ""]
    ELSE [m |-> [step(m, "other") EXCEPT !.wfile = writefile(rq.fco.data, rq.fco.flags)],
          r |-> 0, deleted |-> FALSE, raised |-> ""]

_ifail(m, rq) ==
    IF rq.fcd.absent
    THEN [m |-> [step(m, "fail") EXCEPT !.wfile = writefile(rq.fco.data, rq.fco.flags)],
          r |-> 1, deleted |-> FALSE, raised |-> ""]
    ELSE [m |-> step(m, "fail"), r |-> 1, deleted |-> FALSE, raised |-> ""]

\* mutant: the answers come in the same order whichever side is absent
_iprompt_sameorder(m, rq, choice) ==
    IF rq.inmemory
    THEN [m |-> step(m, "prompt"), r |-> 1, deleted |-> FALSE,
          raised |-> "InMemoryMergeConflictsError"]
    ELSE IF choice = 0 THEN _ilocal(step(m, "prompt"), rq)
    ELSE IF choice = 1 THEN _iother(step(m, "prompt"), rq)
    ELSE _ifail(step(m, "prompt"), rq)

\* choice: the index ui.promptchoice returns (0, 1, 2), or 3 when
\* error.ResponseExpected is raised
_iprompt(m, rq, choice) ==
    IF rq.inmemory
    THEN [m |-> step(m, "prompt"), r |-> 1, deleted |-> FALSE,
          raised |-> "InMemoryMergeConflictsError"]
    ELSE LET m1 == step(m, "prompt")
             pick == IF choice = 3 THEN "unresolved"
                     ELSE IF rq.fco.absent THEN <<"local", "other", "unresolved">>[choice + 1]
                     ELSE IF rq.fcd.absent THEN <<"other", "local", "unresolved">>[choice + 1]
                     ELSE <<"local", "other", "unresolved">>[choice + 1]
         IN  IF pick = "other" THEN _iother(m1, rq)
             ELSE IF pick = "local" THEN _ilocal(m1, rq)
             ELSE _ifail(m1, rq)

(***************************************************************************)
(* Backup manager                                                          *)
(***************************************************************************)
\* mutant: the backup is written on every call, premerge or not
_makebackup_always(m, rq, c, premerge) ==
    IF rq.fcd.absent THEN m
    ELSE [step(m, "backup") EXCEPT
             !.back = [exists |-> TRUE, data |-> m.wfile.data,
                       where |-> IF rq.inmemory /\ c.originworkingdir
                                 THEN "wctx" ELSE "disk"]]

\* _makebackup: None for an absent fcd; otherwise the backup file context,
\* written only when premerge is set.  The backup goes to the in-memory
\* context when the merge is in memory and the backup path lies in the
\* working directory, to disk otherwise.
_makebackup(m, rq, c, premerge) ==
    IF rq.fcd.absent THEN m
    ELSE IF premerge
    THEN [step(m, "backup") EXCEPT
             !.back = [exists |-> TRUE, data |-> m.wfile.data,
                       where |-> IF rq.inmemory /\ c.originworkingdir
                                 THEN "wctx" ELSE "disk"]]
    ELSE m

\* back is not None
hasbackup(rq) == ~rq.fcd.absent

\* mutant: the backup's bytes come back without the destination's flags
_restorebackup_noflags(m) ==
    [step(m, "restore") EXCEPT !.wfile = writefile(m.back.data, "")]

\* fcd.write(back.data(), fcd.flags())
_restorebackup(m) ==
    [step(m, "restore") EXCEPT !.wfile = writefile(m.back.data, m.wfile.flags)]

(***************************************************************************)
(* Premerge driver                                                         *)
(***************************************************************************)
validkeep == {"keep", "keep-merge3"}

\* lines 367-376: the premerge setting as _premerge reads it: "True",
\* "False", a member of validkeep, or "ConfigError"
premergepolicy(c, tool, binary) ==
    LET v == _toolstr(c, tool, "premerge")
    IN  IF v = "" THEN (IF binary THEN "False" ELSE "True")
        ELSE IF v = "true" THEN "True"
        ELSE IF v = "false" THEN "False"
        ELSE IF v \in validkeep THEN v
        ELSE "ConfigError"

\* _premerge: (r, the files afterwards), or a raised error
_premerge(m, rq, c, toolconf, labs, sm) ==
    IF toolconf.symlink \/ rq.fcd.absent \/ rq.fco.absent
    THEN [m |-> m, r |-> 1, raised |-> ""]
    ELSE LET premerge == premergepolicy(c, toolconf.tool, toolconf.binary)
         IN  IF premerge = "ConfigError"
             THEN [m |-> m, r |-> 1, raised |-> "ConfigError"]
             ELSE IF premerge = "False"
             THEN [m |-> m, r |-> 1, raised |-> ""]
             ELSE LET ab == IF premerge = "keep-merge3"
                            THEN appendbase(m, labs)
                            ELSE [m |-> m, labs |-> labs]
                      res == simplemerge(ab.m.wfile.data, rq.fca.data, rq.fco.data,
                                         labellist(ab.m, ab.labs), "merge", sm)
                      m1 == step(ab.m, "simplemerge")
                  IN  IF res.raised # ""
                      THEN [m |-> m1, r |-> 1, raised |-> res.raised]
                      ELSE LET m2 == [m1 EXCEPT !.wfile.data = res.data]
                           IN  IF res.r = 0
                               THEN [m |-> m2, r |-> 0, raised |-> ""]
                               ELSE IF premerge \notin validkeep
                               THEN [m |-> _restorebackup(m2), r |-> 1, raised |-> ""]
                               ELSE [m |-> m2, r |-> 1, raised |-> ""]

\* mutant: the precheck lets symlinks through
_mergecheck_nosymlink(rq, toolconf) ==
    IF rq.fcd.absent \/ rq.fco.absent THEN FALSE
    ELSE TRUE

\* _mergecheck: the precheck of :merge, :merge3, :union, :merge-local and
\* :merge-other
_mergecheck(rq, toolconf) ==
    IF toolconf.symlink THEN FALSE
    ELSE IF rq.fcd.absent \/ rq.fco.absent THEN FALSE
    ELSE TRUE

(***************************************************************************)
(* Internal strategies that merge                                          *)
(***************************************************************************)
_merge(m, rq, labs, mode, sm) ==
    LET res == simplemerge(fcddata(m, rq), rq.fca.data, rq.fco.data,
                           labellist(m, labs), mode, sm)
        m1 == step(m, "strategy")
    IN  IF res.raised # "" THEN stratraise(m1, res.raised)
        ELSE stratreturn([m1 EXCEPT !.wfile.data = res.data], TRUE, res.r,
                         pybool(FALSE))

_iunion(m, rq, labs, sm) == _merge(m, rq, labs, "union", sm)

_imerge(m, rq, labs, sm) == _merge(m, rq, labs, "merge", sm)

_imerge3(m, rq, labs, sm) ==
    LET ab == appendbase(m, labs)
    IN  _imerge(ab.m, rq, ab.labs, sm)

\* _imergeauto through _imergelocal / _imergeother
_imergeauto(m, rq, labs, localorother, sm) ==
    _merge(m, rq, labs, localorother, sm)

\* tagmerge.merge: (False, 0) with the merged tags written, or (True, 1)
_itagmerge(m, rq, tag) ==
    IF tag = "merged"
    THEN stratreturn([step(m, "strategy") EXCEPT
                         !.wfile.data = fcddata(m, rq) \o rq.fco.data],
                     FALSE, 0, pybool(FALSE))
    ELSE stratreturn(step(m, "strategy"), TRUE, 1, pybool(FALSE))

\* the res of "if res:" in _iabort is the tuple _imerge returns, which is
\* never empty
_iabort(m, rq, labs, sm) ==
    IF ~rq.inmemory THEN stratraise(step(m, "strategy"), "Abort")
    ELSE LET res == _imerge(m, rq, labs, sm)
         IN  IF res.raised # "" THEN res
             ELSE stratraise(res.m, "AbortMergeToolError")

\* mutant: the dump leaves out the local version
_idump_nolocal(m, rq) ==
    IF rq.inmemory /\ ~rq.fcd.absent
    THEN stratraise(step(m, "strategy"), "InMemoryMergeConflictsError")
    ELSE stratreturn(
             [step(m, "strategy") EXCEPT
                 !.sidecar = {<<".other", rq.fco.data>>,
                              <<".base", rq.fca.data>>}],
             FALSE, 1, pybool(FALSE))

_idump(m, rq) ==
    IF rq.inmemory /\ ~rq.fcd.absent
    THEN stratraise(step(m, "strategy"), "InMemoryMergeConflictsError")
    ELSE stratreturn(
             [step(m, "strategy") EXCEPT
                 !.sidecar = {<<".local", fcddata(m, rq)>>,
                              <<".other", rq.fco.data>>,
                              <<".base", rq.fca.data>>}],
             FALSE, 1, pybool(FALSE))

_forcedump(m, rq) == _idump(m, rq)

(***************************************************************************)
(* External driver                                                         *)
(***************************************************************************)
_xmergeimm(m, rq) == stratraise(step(m, "strategy"), "InMemoryMergeConflictsError")

\* _maketempfiles: the temp files that exist afterwards and whether writing
\* one of them failed (tempfail names the file whose write raises)
_maketempfiles(tempfail) ==
    IF tempfail = "base" THEN [files |-> {"~base"}, raised |-> "IOError"]
    ELSE IF tempfail = "other" THEN [files |-> {"~base", "~other"}, raised |-> "IOError"]
    ELSE [files |-> {"~base", "~other"}, raised |-> ""]

\* mutant: $base gets the other side's temp file and $other the ancestor's
interpolate_swapped(args, replace) ==
    [i \in DOMAIN args |->
        IF args[i] = "$local" THEN replace.local
        ELSE IF args[i] = "$base" THEN replace.other
        ELSE IF args[i] = "$other" THEN replace.base
        ELSE IF args[i] = "$output" THEN replace.output
        ELSE args[i]]

\* util.interpolate over the words of the args template
interpolate(args, replace) ==
    [i \in DOMAIN args |->
        IF args[i] = "$local" THEN replace.local
        ELSE IF args[i] = "$base" THEN replace.base
        ELSE IF args[i] = "$other" THEN replace.other
        ELSE IF args[i] = "$output" THEN replace.output
        ELSE args[i]]

\* the body the launched tool leaves in the file it writes (the $output
\* file, or $local when the template has no $output), out of what it read:
\* the file as it was, both changes, simplemerge's conflict region, or both
\* changes with a lone "=======" line between them in the line ending of
\* the file
tooloutput(toolout, current, ldata, bdata, odata) ==
    IF toolout = "merged" THEN ldata \o odata
    ELSE IF toolout = "markers"
    THEN conflictbody(ldata, bdata, odata, <<"local", "other">>)
    ELSE IF toolout = "separator"
    THEN ldata
           \o << <<"=======", "",
                   IF _eoltype(ldata) = NoneV THEN "\n" ELSE _eoltype(ldata)>> >>
           \o odata
    ELSE current

\* _xmerge; x.tempfail, x.exit and x.toolout are what the host and the tool do
_xmerge(m, rq, c, toolconf, x) ==
    IF rq.fcd.absent \/ rq.fco.absent
    THEN stratreturn(step(m, "strategy"), FALSE, 1, pynonebool)
    ELSE LET made == _maketempfiles(x.tempfail)
             m0 == step(m, "strategy")
         IN  IF made.raised # ""
             THEN stratraise([m0 EXCEPT !.temps = @ \cup made.files], made.raised)
             ELSE LET args == _toolstr(c, toolconf.tool, "args")
                      useout == \E i \in DOMAIN args : args[i] = "$output"
                      replace == [local |-> IF useout THEN "backup" ELSE "dest",
                                  base |-> "~base", other |-> "~other",
                                  output |-> IF useout THEN "dest" ELSE ""]
                      cmd == <<toolconf.toolpath>> \o interpolate(args, replace)
                      ldata == IF useout THEN m.back.data ELSE m.wfile.data
                      m1 == [m0 EXCEPT
                               !.xcmd = [tool |-> toolconf.tool, cmd |-> cmd,
                                         replace |-> replace],
                               !.wfile.data = tooloutput(x.toolout, m.wfile.data, ldata,
                                                         rq.fca.data, rq.fco.data)]
                  \* finally: util.unlink(b); util.unlink(c)
                  IN  stratreturn([m1 EXCEPT !.temps = @ \ made.files],
                                  TRUE, x.exit, pybool(FALSE))

(***************************************************************************)
(* Post-check and failure policy                                           *)
(***************************************************************************)
\* mutant: a yes to "was merge successful" makes the status 0
_check_promptdecides(m, rq, c, tool, r, checkans, changedans) ==
    LET hasback == hasbackup(rq)
        checked == "prompt" \in _toollist(c, tool, "check")
        r2 == IF checked THEN (IF checkans THEN 0 ELSE 1) ELSE r
        fixeol == hasback /\ _toolbool(c, tool, "fixeol")
        m1 == step(m, "check")
    IN  IF fixeol /\ ~m.back.exists
        THEN [m |-> m1, r |-> r, raised |-> "IOError"]
        ELSE [m |-> IF fixeol
                    THEN [m1 EXCEPT !.wfile.data = _matcheol(@, m.back.data)]
                    ELSE m1,
              r |-> r2, raised |-> ""]

\* _check; checkans and changedans are the answers to its two prompts
\* (TRUE for yes).  Reading a backup file that was never written raises.
_check(m, rq, c, tool, r, checkans, changedans) ==
    LET hasback == hasbackup(rq)
        r1 == IF r = 0
                 /\ (_toolbool(c, tool, "checkconflicts")
                        \/ "conflicts" \in _toollist(c, tool, "check"))
                 /\ hasconflictmarkers(fcddata(m, rq))
              THEN 1 ELSE r
        checked == "prompt" \in _toollist(c, tool, "check")
        r2 == IF checked /\ ~checkans THEN 1 ELSE r1
        askchanged == /\ r2 = 0
                      /\ ~checked
                      /\ (_toolbool(c, tool, "checkchanged")
                            \/ "changed" \in _toollist(c, tool, "check"))
                      /\ hasback
        fixeol == hasback /\ _toolbool(c, tool, "fixeol")
        m1 == step(m, "check")
    IN  IF (askchanged \/ fixeol) /\ ~m.back.exists
        THEN [m |-> m1, r |-> r, raised |-> "IOError"]
        ELSE LET r3 == IF askchanged /\ fcddata(m, rq) = m.back.data /\ ~changedans
                       THEN 1 ELSE r2
                 m2 == IF fixeol
                       THEN [m1 EXCEPT !.wfile.data = _matcheol(@, m.back.data)]
                       ELSE m1
             IN  [m |-> m2, r |-> r3, raised |-> ""]

\* mutant: every value but "continue" and a yes to the prompt halts
_onfilemergefailure_unknownhalts(c, failans) ==
    \/ c.onfailure = "prompt" /\ ~failans
    \/ c.onfailure \notin {"prompt", "continue"}

\* _onfilemergefailure: whether _haltmerge raises; failans is the answer to
\* "continue merge operation (yn)?"
_onfilemergefailure(c, failans) ==
    \/ c.onfailure = "prompt" /\ ~failans
    \/ c.onfailure = "halt"

(***************************************************************************)
(* Orchestrator                                                            *)
(***************************************************************************)
\* mutant: files of equal content and different flags count as different
fcocmp_flags(m, rq) ==
    IF rq.fco.absent
    THEN (IF rq.fcd.absent THEN "AttributeError" ELSE "differ")
    ELSE IF rq.fcd.absent THEN "differ"
    ELSE IF rq.fco.data # m.wfile.data \/ rq.fco.flags # m.wfile.flags THEN "differ"
    ELSE "same"

\* fco.cmp(fcd): "differ", "same", or the AttributeError of
\* absentfilectx.cmp, which calls ctx() on an absentfilectx (it has none)
\* when both sides are absent
fcocmp(m, rq) ==
    IF rq.fco.absent
    THEN (IF rq.fcd.absent THEN "AttributeError" ELSE "differ")
    ELSE IF rq.fcd.absent THEN "differ"
    ELSE IF rq.fco.data # m.wfile.data THEN "differ"
    ELSE "same"

\* lines 784-786: "internal:name" becomes ":name"
normalizetool(tool) ==
    IF tool \in DOMAIN internals THEN ":" \o internals[tool].name ELSE tool

\* the strategy of a no-merge tool
nomergefunc(tool, m, rq, choice) ==
    IF tool = ":prompt" THEN _iprompt(m, rq, choice)
    ELSE IF tool = ":local" THEN _ilocal(m, rq)
    ELSE IF tool = ":other" THEN _iother(m, rq)
    ELSE _ifail(m, rq)

\* lines 798-810 and 852-854: func(repo, mynode, orig, fcd, fco, fca,
\* toolconf, files, labels=labels) for a merge-only or full-merge tool
func(toolconf, m, rq, c, labs, nd) ==
    LET tool == toolconf.tool
    IN  IF tool = ":merge" THEN _imerge(m, rq, labs, nd.sm)
        ELSE IF tool = ":merge3" THEN _imerge3(m, rq, labs, nd.sm)
        ELSE IF tool = ":union" THEN _iunion(m, rq, labs, nd.sm)
        ELSE IF tool = ":merge-local" THEN _imergeauto(m, rq, labs, "local", nd.sm)
        ELSE IF tool = ":merge-other" THEN _imergeauto(m, rq, labs, "other", nd.sm)
        ELSE IF tool = ":tagmerge" THEN _itagmerge(m, rq, nd.tag)
        ELSE IF tool = ":dump" THEN _idump(m, rq)
        ELSE IF tool = ":forcedump" THEN _forcedump(m, rq)
        ELSE IF tool = ":abort" THEN _iabort(m, rq, labs, nd.sm)
        ELSE IF rq.inmemory THEN _xmergeimm(m, rq)
        ELSE _xmerge(m, rq, c, toolconf, nd)

\* mutant: the finally clause leaves the backup alone
removebackup_never(m, rq, r) == [m |-> m, raised |-> ""]

\* lines 871-873: finally: if not r and back is not None: back.remove()
\* (removing a backup file that was never written raises)
removebackup(m, rq, r) ==
    IF r = 0 /\ hasbackup(rq)
    THEN IF m.back.exists
         THEN [m |-> [step(m, "backupremove") EXCEPT !.back.exists = FALSE,
                                                     !.back.data = <<>>],
               raised |-> ""]
         ELSE [m |-> m, raised |-> "OSError"]
    ELSE [m |-> m, raised |-> ""]

\* the outcome of a call whose try block ended with r and with out (a
\* return value or an error): the finally clause runs first
finish(m, rq, r, out) ==
    LET fin == removebackup(m, rq, r)
    IN  [m |-> fin.m,
         result |-> IF fin.raised # "" THEN raisederror(fin.raised) ELSE out]

\* mutant: the premerge reports the file complete whatever its status
returnpremerge_complete(rq, pr) ==
    IF pr.raised # ""
    THEN finish(pr.m, rq, 1, raisederror(pr.raised))
    ELSE finish(pr.m, rq, pr.r, returned(TRUE, pyint(pr.r), pybool(FALSE)))

\* lines 848-850: return not r, r, False
returnpremerge(rq, pr) ==
    IF pr.raised # ""
    THEN finish(pr.m, rq, 1, raisederror(pr.raised))
    ELSE finish(pr.m, rq, pr.r, returned(pr.r = 0, pyint(pr.r), pybool(FALSE)))

\* mutant: a merge that ends with a status other than 0 is reported as not
\* completed
returnmerge_incomplete(rq, c, onfailure, nd, st, ck) ==
    IF ck.raised # ""
    THEN finish(ck.m, rq, st.r, raisederror(ck.raised))
    ELSE IF ck.r # 0
    THEN IF onfailure /\ rq.inmemory
         THEN finish(ck.m, rq, ck.r, raisederror("InMemoryMergeConflictsError"))
         ELSE IF _onfilemergefailure(c, nd.failans)
         THEN finish(step(ck.m, "onfailure"), rq, ck.r,
                     raisederror("InterventionRequired"))
         ELSE finish(step(ck.m, "onfailure"), rq, ck.r,
                     returned(FALSE, pyint(ck.r), st.deleted))
    ELSE finish(ck.m, rq, ck.r, returned(TRUE, pyint(ck.r), st.deleted))

\* lines 859-870: the failure policy and the return, st being what func
\* returned and ck what _check made of it
returnmerge(rq, c, onfailure, nd, st, ck) ==
    IF ck.raised # ""
    THEN finish(ck.m, rq, st.r, raisederror(ck.raised))
    ELSE IF ck.r # 0
    THEN IF onfailure /\ rq.inmemory
         THEN finish(ck.m, rq, ck.r, raisederror("InMemoryMergeConflictsError"))
         ELSE IF _onfilemergefailure(c, nd.failans)
         THEN finish(step(ck.m, "onfailure"), rq, ck.r,
                     raisederror("InterventionRequired"))
         ELSE finish(step(ck.m, "onfailure"), rq, ck.r,
                     returned(TRUE, pyint(ck.r), st.deleted))
    ELSE finish(ck.m, rq, ck.r, returned(TRUE, pyint(ck.r), st.deleted))

\* lines 852-857: what func returned goes through _check when needcheck is set
checkmerge(rq, c, tool, onfailure, nd, st) ==
    IF st.raised # ""
    THEN finish(st.m, rq, 1, raisederror(st.raised))
    ELSE returnmerge(rq, c, onfailure, nd, st,
                     IF st.needcheck
                     THEN _check(st.m, rq, c, tool, st.r, nd.checkans, nd.changedans)
                     ELSE [m |-> st.m, r |-> st.r, raised |-> ""])

\* lines 837-873: from the backup to the return
mergebody(premerge, rq, c, m, toolconf, mergetype, onfailure, nd) ==
    LET m1 == _makebackup(m, rq, c, premerge)
        labs0 == IF m1.rlabels # <<>>
                 THEN [owner |-> "caller", own |-> <<>>]
                 ELSE [owner |-> "default", own |-> <<>>]
        labs == IF c.mergemarkers # "basic"
                THEN [owner |-> "own", own |-> _formatlabels(labellist(m1, labs0))]
                ELSE labs0
    IN  IF premerge /\ mergetype = fullmerge
        THEN returnpremerge(rq, _premerge(m1, rq, c, toolconf, labs, nd.sm))
        ELSE checkmerge(rq, c, toolconf.tool, onfailure, nd,
                        func(toolconf, m1, rq, c, labs, nd))

\* lines 780-783: what _filemerge hands to _picktool
pickinput(m, rq) ==
    [path |-> rq.path,
     binary |-> isbinary([rq.fcd EXCEPT !.data = fcddata(m, rq)])
                  \/ isbinary(rq.fco) \/ isbinary(rq.fca),
     symlink |-> fcdflags(m, rq) = "l" \/ rq.fco.flags = "l",
     changedelete |-> rq.fcd.absent \/ rq.fco.absent]

\* lines 784-812: the picked tool under its normalized name and what the
\* registry says about it
registered(pk, pi) ==
    LET tool == normalizetool(pk[1])
        internal == tool \in DOMAIN internals
    IN  [picked |-> pk,
         toolconf |-> [tool |-> tool, toolpath |-> pk[2], binary |-> pi.binary,
                       symlink |-> pi.symlink],
         internal |-> internal,
         mergetype |-> IF internal THEN internals[tool].mergetype ELSE fullmerge,
         onfailure |-> IF internal THEN internals[tool].onfailure ELSE TRUE,
         precheck |-> IF internal THEN internals[tool].precheck ELSE FALSE]

\* the tool of the call
toolof(m, rq, c) ==
    LET pi == pickinput(m, rq)
    IN  registered(_picktool(c, pi.path, pi.binary, pi.symlink, pi.changedelete), pi)

nopick == <<NoneV, NoneV>>

\* mutant: a no-merge strategy that fails leaves the file incomplete
returnnomerge_incomplete(res, pk) ==
    [m |-> res.m,
     result |-> IF res.raised # "" THEN raisederror(res.raised)
                ELSE returned(res.r = 0, pyint(res.r), pybool(res.deleted)),
     picked |-> pk]

\* lines 815-816: return True, r, deleted
returnnomerge(res, pk) ==
    [m |-> res.m,
     result |-> IF res.raised # "" THEN raisederror(res.raised)
                ELSE returned(TRUE, pyint(res.r), pybool(res.deleted)),
     picked |-> pk]

\* the outcome of the call together with what _picktool returned
withpicked(b, pk) == [m |-> b.m, result |-> b.result, picked |-> pk]

\* lines 814-873: the call once the tool t is picked
dispatch(premerge, rq, c, m0, nd, t) ==
    IF t.mergetype = nomerge
    THEN returnnomerge(nomergefunc(t.toolconf.tool, m0, rq, nd.choice), t.picked)
    ELSE IF t.precheck /\ ~_mergecheck(rq, t.toolconf)
    THEN [m |-> step(m0, "precheckfailed"),
          result |-> IF t.onfailure /\ rq.inmemory
                     THEN raisederror("InMemoryMergeConflictsError")
                     ELSE returned(TRUE, pyint(1), pybool(FALSE)),
          picked |-> t.picked]
    ELSE withpicked(mergebody(premerge, rq, c, m0, t.toolconf, t.mergetype,
                              t.onfailure, nd),
                    t.picked)

\* _filemerge(premerge, repo, wctx, mynode, orig, fcd, fco, fca, labels):
\* the files afterwards, the outcome and what _picktool returned
_filemerge(premerge, rq, c, m, nd) ==
    LET same == fcocmp(m, rq)
    IN  IF same = "AttributeError"
        THEN [m |-> m, result |-> raisederror("AttributeError"), picked |-> nopick]
        ELSE IF same = "same"
        THEN [m |-> m, result |-> returned(TRUE, pynoneint, pybool(FALSE)),
              picked |-> nopick]
        ELSE dispatch(premerge, rq, c, step(m, "picktool"), nd, toolof(m, rq, c))

(***************************************************************************)
(* Inputs of the runs                                                      *)
(***************************************************************************)
\* largest merge-tools priority drawn
MaxPriority == 1

\* longest merge-patterns section drawn
MaxPatterns == 2

basecfg ==
    [forcemerge |-> "", HGMERGE |-> "", patterns |-> <<>>, mergetools |-> <<>>,
     uimerge |-> "", gui |-> TRUE, installed |-> {"kdiff3", "meld"},
     mergemarkers |-> "basic", onfailure |-> "continue",
     originworkingdir |-> TRUE]

\* capability settings (symlink, binary, gui) drawn for a merge-tools entry
Capabilities ==
    {<<FALSE, FALSE, FALSE>>, <<TRUE, FALSE, FALSE>>, <<FALSE, TRUE, FALSE>>,
     <<TRUE, TRUE, TRUE>>}

toolentry(t, prio, dis, caps) ==
    [tooldefaults(t) EXCEPT !.priority = prio, !.disabled = dis,
                            !.symlink = caps[1], !.binary = caps[2], !.gui = caps[3]]

ToolEntries(names) ==
    {toolentry(t, p, d, k) : t \in names, p \in 0..MaxPriority, d \in BOOLEAN,
                             k \in Capabilities}

\* merge-tools sections over the given tool names, every order of listing
ToolSections(names) ==
    {<<>>} \cup {<<e>> : e \in ToolEntries(names)}
           \cup {p \in ToolEntries(names) \X ToolEntries(names) :
                            p[1].name # p[2].name}

PatternEntries == {"**.txt", "**.bin"} \X {":fail", "kdiff3"}

PatternSections ==
    UNION {[1..n -> PatternEntries] : n \in 0..MaxPatterns}

\* configurations of the runs that exercise the precedence of the sources
CfgPrecedence ==
    {[basecfg EXCEPT !.forcemerge = f, !.HGMERGE = h, !.patterns = ps,
                     !.mergetools = mt, !.uimerge = u, !.gui = g]
       : f \in {"", ":local", "internal:merge", "kdiff3", "nosuch"},
         h \in {"", ":other", "meld"},
         ps \in PatternSections,
         mt \in {<<>>, <<toolentry("kdiff3", 0, FALSE, <<TRUE, TRUE, TRUE>>)>>,
                 <<toolentry("meld", 1, FALSE, <<FALSE, FALSE, FALSE>>)>>},
         u \in {"", ":merge3"},
         g \in BOOLEAN}

\* configurations of the runs that exercise the pool step
CfgPool ==
    {[basecfg EXCEPT !.mergetools = mt, !.uimerge = u, !.gui = g, !.installed = ins]
       : mt \in ToolSections({"kdiff3", "meld"}),
         u \in {"", "kdiff3", ":other"},
         g \in BOOLEAN,
         ins \in {{"kdiff3", "meld"}, {"meld", "hgmerge"}}}

noreq == [path |-> NoneV]
noresult == [kind |-> "none"]
nobackup == [exists |-> FALSE, data |-> <<>>, where |-> "disk"]
nopin == [path |-> "a.txt", binary |-> FALSE, symlink |-> FALSE, changedelete |-> FALSE]

Init ==
    /\ pc = "idle"
    /\ cfg = basecfg
    /\ req = noreq
    /\ wfile = removedfile
    /\ back = nobackup
    /\ sidecar = {}
    /\ temps = {}
    /\ xcmd = nocmd
    /\ result = noresult
    /\ picked = nopick
    /\ pin = nopin
    /\ ran = {}
    /\ defaultconflictlabels = <<"local", "other">>

(***************************************************************************)
(* The picker on its own: _picktool applied to a configuration and a file  *)
(***************************************************************************)
PickTool(C) ==
    /\ pc = "idle"
    /\ \E c \in C, b \in BOOLEAN, s \in BOOLEAN, cd \in BOOLEAN :
        /\ cfg' = c
        /\ pin' = [path |-> "a.txt", binary |-> b, symlink |-> s, changedelete |-> cd]
        /\ picked' = _picktool(c, "a.txt", b, s, cd)
        /\ pc' = "picked"
        /\ UNCHANGED <<req, wfile, back, sidecar, temps, xcmd, result, ran,
                       defaultconflictlabels>>

PickPrecedence == PickTool(CfgPrecedence)

PickPool == PickTool(CfgPool)

SpecPick == Init /\ [][PickPrecedence]_vars

SpecPool == Init /\ [][PickPool]_vars


(***************************************************************************)
(* Merges: premerge() and filemerge() on the requests of a run             *)
(***************************************************************************)
\* largest exit code drawn for an external tool
MaxExit == 1

LocalFiles ==
    {absentfilectx,
     filectx(textfile("a", "\n"), ""),
     filectx(textfile("b", "\n"), ""),
     filectx(textfile("b", "\n"), "x"),
     filectx(textfile("b", "\n"), "l"),
     filectx(binaryfile, "")}

OtherFiles ==
    {absentfilectx,
     filectx(textfile("c", "\n"), ""),
     filectx(textfile("b", "\n"), "x"),
     filectx(textfile("c", "\n"), "l")}

AncestorFiles == {filectx(textfile("a", "\n"), "")}

request(d, o, a, l, im) ==
    [path |-> "a.txt", fcd |-> d, fco |-> o, fca |-> a, labels |-> l, inmemory |-> im]

Requests ==
    {request(d, o, a, l, im)
       : d \in LocalFiles, o \in OtherFiles, a \in AncestorFiles,
         l \in {<<>>, <<"working copy", "merge rev">>}, im \in BOOLEAN}

\* requests on text files with either line ending, for the post-check
RequestsEol ==
    {request(filectx(textfile("b", e), ""), filectx(textfile(t, "\n"), ""), a, <<>>, im)
       : e \in {"\n", "\r\n"}, t \in {"a", "c"}, a \in AncestorFiles, im \in BOOLEAN}

forced(t, entry) == [basecfg EXCEPT !.forcemerge = t, !.mergetools = <<entry>>]

InternalToolNames == {":" \o n : n \in DOMAIN internaltool}

\* every tool forced in turn, under the failure policies
CfgTools ==
    {[forced(t, tooldefaults(t)) EXCEPT !.onfailure = f]
       : t \in InternalToolNames \cup {"internal:merge", "kdiff3"},
         f \in {"continue", "halt"}}
    \cup {[forced(t, tooldefaults(t)) EXCEPT !.onfailure = f]
            : t \in {":merge", ":merge-local", ":forcedump", "kdiff3"},
              f \in {"prompt", "stop"}}

\* full-merge tools under each premerge setting and marker style
CfgPremerge ==
    {[forced(t, [tooldefaults(t) EXCEPT !.premerge = p]) EXCEPT !.mergemarkers = ms]
       : t \in {":merge", ":merge3", ":dump", "kdiff3"},
         p \in {"true", "false", "keep", "keep-merge3", "sometimes"},
         ms \in {"basic", "detailed"}}

\* a tool with each args template and each post-check setting
CfgCheck ==
    {forced(t, [tooldefaults(t) EXCEPT !.args = a, !.check = ck, !.fixeol = fe])
       : t \in {"kdiff3", ":merge-other"},
         a \in {<<"$local", "$base", "$other">>,
                <<"$local", "$base", "$other", "-o", "$output">>},
         ck \in SUBSET {"conflicts", "prompt", "changed"},
         fe \in BOOLEAN}

\* no override: the tool comes from HGMERGE, ui.merge or the pool
CfgPicked ==
    {[basecfg EXCEPT !.HGMERGE = h, !.uimerge = u, !.mergetools = mt]
       : h \in {"", "meld"}, u \in {"", ":merge3"},
         mt \in {<<>>, <<toolentry("kdiff3", 0, FALSE, <<TRUE, TRUE, FALSE>>)>>}}
    \cup {[forced(":merge", tooldefaults(":merge")) EXCEPT !.originworkingdir = FALSE]}

CfgMerge == CfgTools \cup CfgPremerge \cup CfgPicked

\* a merge begins: the caller has a request and the destination file is as
\* the local side describes it
Start(R, C) ==
    /\ pc = "idle"
    /\ \E rq \in R, c \in C :
        /\ req' = rq
        /\ cfg' = c
        /\ wfile' = IF rq.fcd.absent THEN removedfile
                    ELSE writefile(rq.fcd.data, rq.fcd.flags)
    /\ pc' = "start"
    /\ UNCHANGED <<back, sidecar, temps, xcmd, result, picked, pin, ran,
                   defaultconflictlabels>>

StartMerge == Start(Requests, CfgMerge)

StartCheck == Start(RequestsEol, CfgCheck)

machine ==
    [wfile |-> wfile, back |-> back, sidecar |-> sidecar, temps |-> temps,
     xcmd |-> xcmd, dlabels |-> defaultconflictlabels, rlabels |-> req.labels,
     ran |-> {}]

\* what the host, the user, the tool and simplemerge may do during a call
\* with tool t (a field that the call cannot reach is drawn from one value
\* only)
ndchoicesfor(t, premerge) ==
    LET tool == t.toolconf.tool
        merging == t.mergetype # nomerge
        running == merging /\ ~(premerge /\ t.mergetype = fullmerge)
        external == running /\ ~t.internal /\ ~req.inmemory
    IN  [sm : IF merging
              THEN smchoices(fcddata(machine, req), req.fca.data, req.fco.data)
              ELSE {"clean"},
         choice : IF tool = ":prompt" THEN 0..3 ELSE {0},
         tag : IF tool = ":tagmerge" THEN {"merged", "failed"} ELSE {"merged"},
         tempfail : IF external THEN {"none", "base", "other"} ELSE {"none"},
         exit : IF external THEN 0..MaxExit ELSE {0},
         toolout : IF external
                   THEN {"same", "merged", "markers", "separator"}
                   ELSE {"same"},
         checkans : IF running /\ "prompt" \in _toollist(cfg, tool, "check")
                    THEN BOOLEAN ELSE {TRUE},
         changedans : IF running /\ "changed" \in _toollist(cfg, tool, "check")
                      THEN BOOLEAN ELSE {TRUE},
         failans : IF running /\ cfg.onfailure = "prompt" THEN BOOLEAN ELSE {TRUE}]

ndchoices(premerge) == ndchoicesfor(toolof(machine, req, cfg), premerge)

\* the files, the lists and the outcome as the call out leaves them
Return(out, done) ==
    /\ wfile' = out.m.wfile
    /\ back' = out.m.back
    /\ sidecar' = out.m.sidecar
    /\ temps' = out.m.temps
    /\ xcmd' = out.m.xcmd
    /\ defaultconflictlabels' = out.m.dlabels
    /\ req' = [req EXCEPT !.labels = out.m.rlabels]
    /\ ran' = out.m.ran
    /\ result' = out.result
    /\ picked' = out.picked
    /\ pc' = done

\* the call _filemerge(premerge, ...) as one step
Call(premerge, done) ==
    /\ \E nd \in ndchoices(premerge) :
          Return(_filemerge(premerge, req, cfg, machine, nd), done)
    /\ pin' = pickinput(machine, req)
    /\ UNCHANGED cfg

\* premerge(repo, wctx, mynode, orig, fcd, fco, fca, labels)
premerge ==
    /\ pc = "start"
    /\ Call(TRUE, "premerged")

\* filemerge(repo, wctx, mynode, orig, fcd, fco, fca, labels): on a fresh
\* request ("merged" afterwards), or after a premerge that did not complete
\* ("resolved" afterwards)
filemerge ==
    \/ /\ pc = "start"
       /\ Call(FALSE, "merged")
    \/ /\ pc = "premerged"
       /\ result.kind = "return"
       /\ ~result.completed
       /\ Call(FALSE, "resolved")

\* the caller is done with the file; the module-level list lives on
NextFile ==
    /\ pc \in {"premerged", "merged", "resolved"}
    /\ pc' = "idle"
    /\ cfg' = basecfg
    /\ req' = noreq
    /\ wfile' = removedfile
    /\ back' = nobackup
    /\ sidecar' = {}
    /\ temps' = {}
    /\ xcmd' = nocmd
    /\ result' = noresult
    /\ picked' = nopick
    /\ pin' = nopin
    /\ ran' = {}
    /\ UNCHANGED defaultconflictlabels

Next == StartMerge \/ premerge \/ filemerge \/ NextFile

Spec == Init /\ [][Next]_vars

NextCheck == StartCheck \/ premerge \/ filemerge \/ NextFile

SpecCheck == Init /\ [][NextCheck]_vars

(***************************************************************************)
(* Properties of the tool picker                                           *)
(***************************************************************************)
\* the merge-patterns entries that match the path and whose tool passes the
\* capability check (made with binary taken as false)
PatternSurvivors ==
    {i \in DOMAIN cfg.patterns :
       /\ mf(cfg.patterns[i][1], pin.path)
       /\ check(cfg, cfg.patterns[i][2], cfg.patterns[i][1], pin.symlink, FALSE,
                pin.changedelete)}

FirstSurvivor == CHOOSE i \in PatternSurvivors : \A j \in PatternSurvivors : i <= j

\* the picker got as far as the pool step
InPoolStep ==
    /\ pc = "picked"
    /\ cfg.forcemerge = ""
    /\ cfg.HGMERGE = ""
    /\ PatternSurvivors = {}

\* C4: with change_delete false, ui.forcemerge beats HGMERGE, which beats the
\* first surviving pattern, which beats the pool; the pool is used only when
\* none of the three applies.
C4_Precedence ==
    (pc = "picked" /\ ~pin.changedelete) =>
        /\ cfg.forcemerge # "" => picked[1] = cfg.forcemerge
        /\ (cfg.forcemerge = "" /\ cfg.HGMERGE # "") =>
               picked = <<cfg.HGMERGE, cfg.HGMERGE>>
        /\ (cfg.forcemerge = "" /\ cfg.HGMERGE = "" /\ PatternSurvivors # {}) =>
               picked[1] = cfg.patterns[FirstSurvivor][2]
        /\ InPoolStep =>
               picked = pickfrompool(cfg, pin.path, pin.binary, pin.symlink, FALSE)

C4_Witness ==
    /\ pc = "picked"
    /\ ~pin.changedelete
    /\ cfg.forcemerge = "kdiff3"
    /\ cfg.HGMERGE = "meld"
    /\ PatternSurvivors # {}
    /\ cfg.mergetools # <<>>
    /\ cfg.uimerge # ""
    /\ picked[1] = "kdiff3"

\* the enabled merge-tools entries that pass the capability check
Capable ==
    {i \in DOMAIN cfg.mergetools :
       /\ ~cfg.mergetools[i].disabled
       /\ check(cfg, cfg.mergetools[i].name, NoneV, pin.symlink, pin.binary,
                pin.changedelete)}

\* the ui.merge tool is returned before any merge-tools entry is tried
UiMergeTaken ==
    /\ cfg.uimerge # ""
    /\ \/ (cfg.uimerge \notin poolnames(cfg) /\ ~pin.changedelete)
       \/ check(cfg, cfg.uimerge, NoneV, pin.symlink, pin.binary, pin.changedelete)

\* C5 as stated (the ui.merge tool, which the pool step puts first, set
\* aside): the capable enabled tool of highest priority is chosen, the first
\* one in the configuration's iteration order among equal priorities.
C5_TiesByConfigOrder ==
    (InPoolStep /\ Capable # {} /\ ~UiMergeTaken) =>
        LET best == CHOOSE i \in Capable : \A j \in Capable :
                        \/ cfg.mergetools[i].priority > cfg.mergetools[j].priority
                        \/ /\ cfg.mergetools[i].priority = cfg.mergetools[j].priority
                           /\ i <= j
        IN  picked[1] = cfg.mergetools[best].name

\* C5 amended: unless the ui.merge tool is taken first, the capable enabled
\* tool of highest priority is chosen, and among equal priorities the one
\* whose name sorts first.
C5_TiesByName ==
    (InPoolStep /\ Capable # {} /\ ~UiMergeTaken) =>
        LET best == CHOOSE i \in Capable : \A j \in Capable \ {i} :
                        \/ cfg.mergetools[i].priority > cfg.mergetools[j].priority
                        \/ /\ cfg.mergetools[i].priority = cfg.mergetools[j].priority
                           /\ strrank(cfg.mergetools[i].name)
                                < strrank(cfg.mergetools[j].name)
        IN  picked[1] = cfg.mergetools[best].name

C5_Witness ==
    /\ InPoolStep
    /\ ~UiMergeTaken
    /\ Len(cfg.mergetools) = 2
    /\ Capable = {1, 2}
    /\ cfg.mergetools[1].priority = cfg.mergetools[2].priority
    /\ cfg.mergetools[1].name = "meld"
    /\ picked[1] = "kdiff3"

NoMergeInternals ==
    {":prompt", ":local", ":other", ":fail",
     "internal:prompt", "internal:local", "internal:other", "internal:fail"}

\* C6: with change_delete true the picker returns only a no-merge internal
\* tool; an override that is not one yields (":prompt", None), and so does
\* the final fallback.
C6_ChangeDeleteNoMerge ==
    (pc = "picked" /\ pin.changedelete) =>
        /\ picked[1] \in NoMergeInternals
        /\ internals[picked[1]].mergetype = nomerge
        /\ (cfg.forcemerge # "" /\ cfg.forcemerge \notin NoMergeInternals) =>
               picked = <<":prompt", NoneV>>
        /\ (cfg.forcemerge = "" /\ cfg.HGMERGE # ""
              /\ cfg.HGMERGE \notin NoMergeInternals) =>
               picked = <<":prompt", NoneV>>
        /\ (InPoolStep /\ cfg.uimerge \notin NoMergeInternals) =>
               picked = <<":prompt", NoneV>>

C6_Witness ==
    /\ pc = "picked"
    /\ pin.changedelete
    /\ cfg.forcemerge = "internal:merge"
    /\ cfg.HGMERGE = ":other"
    /\ picked = <<":prompt", NoneV>>

\* every tool the configuration names: pattern tools, ui.merge, the
\* merge-tools entries and hgmerge
ConfiguredTools ==
    {cfg.patterns[i][2] : i \in DOMAIN cfg.patterns}
        \cup (IF cfg.uimerge # "" THEN {cfg.uimerge} ELSE {})
        \cup poolnames(cfg) \cup {"hgmerge"}

NoOverride == pc = "picked" /\ cfg.forcemerge = "" /\ cfg.HGMERGE = ""

\* C7 as stated: a binary file for which no configured tool has the binary
\* capability gets the final fallback (":prompt", None).
C7_BinaryAlwaysPrompt ==
    (NoOverride /\ pin.binary
        /\ \A t \in ConfiguredTools : ~_toolbool(cfg, t, "binary")) =>
        picked = <<":prompt", NoneV>>

\* C7 amended: the same, provided no matching pattern's tool survives the
\* check (which ignores binary) and ui.merge is not returned unchecked (it is
\* unset, or has merge-tools entries, or change_delete is true).
C7_BinaryFallback ==
    (NoOverride /\ pin.binary
        /\ (\A t \in ConfiguredTools : ~_toolbool(cfg, t, "binary"))
        /\ PatternSurvivors = {}
        /\ (cfg.uimerge = "" \/ cfg.uimerge \in poolnames(cfg) \/ pin.changedelete)) =>
        picked = <<":prompt", NoneV>>

C7_Witness ==
    /\ NoOverride
    /\ pin.binary
    /\ ~pin.symlink
    /\ ~pin.changedelete
    /\ cfg.gui
    /\ cfg.uimerge = ""
    /\ cfg.patterns # <<>>
    /\ PatternSurvivors = {}
    /\ poolnames(cfg) = {"meld"}
    /\ ~_toolbool(cfg, "meld", "binary")
    /\ picked = <<":prompt", NoneV>>

(***************************************************************************)
(* Properties of the merge of one file                                     *)
(***************************************************************************)
\* a call of premerge() or filemerge() has returned or raised
called == pc \in {"premerged", "merged", "resolved"}

\* this step is a call of premerge() or filemerge()
calling ==
    /\ pc \in {"start", "premerged"}
    /\ pc' \in {"premerged", "merged", "resolved"}
    /\ pc' # pc

\* the tool of the call, under its normalized name, and its merge type
pickedtool == normalizetool(picked[1])

pickedmergetype ==
    IF picked = nopick THEN NoneV
    ELSE IF pickedtool \in DOMAIN internals THEN internals[pickedtool].mergetype
    ELSE fullmerge

\* both sides are present and the other side's content is the destination's
identical ==
    /\ ~req.fcd.absent
    /\ ~req.fco.absent
    /\ req.fco.data = wfile.data

cleanstatus ==
    /\ result.kind = "return"
    /\ ~result.status.none
    /\ result.status.v = 0

nonclean ==
    \/ result.kind = "raise"
    \/ result.kind = "return" /\ ~result.status.none /\ result.status.v # 0

\* C1: on a request whose two sides have identical content, premerge() and
\* filemerge() return (completed true, status None or 0, deleted false) and
\* leave the destination as it was; no tool is picked, no backup is made and
\* no strategy runs.
C1_IdenticalShortcut ==
    [][(calling /\ identical) =>
          /\ result'.kind = "return"
          /\ result'.completed
          /\ (result'.status.none \/ result'.status.v = 0)
          /\ result'.deleted = pybool(FALSE)
          /\ wfile' = wfile
          /\ back' = back
          /\ sidecar' = sidecar
          /\ temps' = temps
          /\ xcmd' = xcmd
          /\ picked' = nopick
          /\ ran' = {}]_vars

C1_Witness ==
    /\ pc = "premerged"
    /\ cfg.forcemerge = ":other"
    /\ req.fco.data = wfile.data
    /\ req.fco.flags = "x"
    /\ wfile = writefile(req.fcd.data, "")
    /\ result = returned(TRUE, pynoneint, pybool(FALSE))
    /\ picked = nopick
    /\ ran = {}

\* C2: when premerge() or filemerge() returns status 0 for a full-merge tool
\* and a destination that is not absent, no backup remains; in a call that
\* follows the backup's creation the finally clause has removed it.
C2_CleanRemovesBackup ==
    (called /\ pickedmergetype = fullmerge /\ ~req.fcd.absent /\ cleanstatus) =>
        /\ ~back.exists
        /\ pc # "merged" => "backupremove" \in ran

C2_Witness ==
    /\ pc = "resolved"
    /\ pickedmergetype = fullmerge
    /\ ~req.fcd.absent
    /\ cleanstatus
    /\ "strategy" \in ran
    /\ "backupremove" \in ran
    /\ ~back.exists

InternalFullMerges == {":merge", ":merge3", ":union", ":dump", ":abort"}

PrecheckedFullMerges == {":merge", ":merge3", ":union"}

C9_OtherWritesOther ==
    ("other" \in ran /\ ~req.fco.absent) =>
        /\ wfile = writefile(req.fco.data, req.fco.flags)
        /\ result = returned(TRUE, pyint(0), pybool(FALSE))

C9_Witness ==
    /\ "other" \in ran
    /\ req.fcd.absent
    /\ ~req.fco.absent
    /\ req.fco.flags = "x"
    /\ wfile = writefile(req.fco.data, "x")
    /\ result = returned(TRUE, pyint(0), pybool(FALSE))

\* C10: when the local side is present, the other side is absent and the
\* tool is :other, the destination is removed and the outcome is (completed
\* true, status 0, deleted true).
C10_OtherAbsentRemoves ==
    (called /\ pickedtool = ":other" /\ ~req.fcd.absent /\ req.fco.absent) =>
        /\ "other" \in ran
        /\ ~wfile.exists
        /\ result = returned(TRUE, pyint(0), pybool(TRUE))

C10_Witness ==
    /\ pc = "merged"
    /\ pickedtool = ":other"
    /\ ~req.fcd.absent
    /\ req.fco.absent
    /\ ~wfile.exists
    /\ result = returned(TRUE, pyint(0), pybool(TRUE))

\* C11: when the local strategy runs, the destination's bytes, flags and
\* existence are as before the call, no backup and no sidecar file is
\* written, and the outcome is (completed true, status 0, deleted =
\* fcd.isabsent()).
C11_LocalKeepsDestination ==
    [][(calling /\ "local" \in ran') =>
          /\ wfile' = wfile
          /\ back' = back
          /\ sidecar' = sidecar
          /\ temps' = temps
          /\ result' = returned(TRUE, pyint(0), pybool(req.fcd.absent))]_vars

C11_Witness ==
    /\ called
    /\ pickedtool = ":local"
    /\ "local" \in ran
    /\ req.fcd.absent
    /\ ~wfile.exists
    /\ ~back.exists
    /\ result = returned(TRUE, pyint(0), pybool(TRUE))

\* C12: when the external driver has returned or raised, every temp file it
\* made for the other and the ancestor version is unlinked, whichever way
\* the call ended.
C12_TempFilesUnlinked ==
    called => temps = {}

\* the write of the second temp file raised and the first is still there
C12_Witness ==
    /\ pc = "resolved"
    /\ pickedtool = "kdiff3"
    /\ ~req.inmemory
    /\ "strategy" \in ran
    /\ result = raisederror("IOError")
    /\ temps = {"~base", "~other"}
    /\ xcmd = nocmd

\* the premerge setting of the tool of the call, as _premerge reads it
pickedpremerge == premergepolicy(cfg, pickedtool, pin.binary)

\* premerge() ran simplemerge and it reported conflicts
premergeconflicts ==
    /\ pc = "premerged"
    /\ "simplemerge" \in ran
    /\ result.kind = "return"
    /\ ~cleanstatus

\* C13: when _premerge runs simplemerge and it reports conflicts, a
\* premerge setting other than keep and keep-merge3 has the destination
\* restored from the backup (the bytes from before the merge, the flags
\* kept), keep and keep-merge3 leave the partial merge output in it, and in
\* both cases _premerge returns 1.
C13_PremergeConflicts ==
    premergeconflicts =>
        /\ result = returned(FALSE, pyint(1), pybool(FALSE))
        /\ wfile.exists
        /\ wfile.flags = req.fcd.flags
        /\ pickedpremerge \notin validkeep =>
               /\ "restore" \in ran
               /\ wfile.data = req.fcd.data
        /\ pickedpremerge \in validkeep =>
               /\ "restore" \notin ran
               /\ hasconflictmarkers(wfile.data)
               /\ wfile.data # req.fcd.data

C13_Witness ==
    /\ premergeconflicts
    /\ pickedpremerge = "True"
    /\ "restore" \in ran
    /\ req.fcd.flags = "x"
    /\ wfile = writefile(req.fcd.data, "x")
    /\ back.exists

\* the three files :dump writes beside a destination holding data
dumpfiles(data) ==
    {<<".local", data>>, <<".other", req.fco.data>>, <<".base", req.fca.data>>}

\* this step is premerge() with the tool :dump
premergedump ==
    /\ pc = "start"
    /\ pc' = "premerged"
    /\ normalizetool(picked'[1]) = ":dump"

\* this step is filemerge() with the tool :dump after a premerge() that did
\* not complete
filemergedump ==
    /\ pc = "premerged"
    /\ pc' = "resolved"
    /\ normalizetool(picked'[1]) = ":dump"

\* C14 as stated: over premerge() then filemerge() with :dump, premerge()
\* writes no sidecar file, and filemerge(), which runs when the premerge
\* failed, leaves the destination as premerge left it and writes the three
\* sidecar files.
C14_DumpAlwaysWrites ==
    [][/\ premergedump => sidecar' = {}
       /\ filemergedump =>
             /\ wfile' = wfile
             /\ sidecar' = dumpfiles(wfile.data)]_vars

\* C14 amended: the same in the working directory; in memory filemerge()
\* with :dump leaves the destination as premerge left it, writes no sidecar
\* file and raises InMemoryMergeConflictsError.
C14_DumpAfterPremerge ==
    [][/\ premergedump => sidecar' = {}
       /\ filemergedump =>
             /\ wfile' = wfile
             /\ ~req.inmemory => sidecar' = dumpfiles(wfile.data)
             /\ req.inmemory =>
                    /\ sidecar' = {}
                    /\ result' = raisederror("InMemoryMergeConflictsError")]_vars

C14_Witness ==
    /\ pc = "resolved"
    /\ pickedtool = ":dump"
    /\ ~req.inmemory
    /\ pickedpremerge = "keep"
    /\ hasconflictmarkers(wfile.data)
    /\ sidecar = dumpfiles(wfile.data)
    /\ result.kind = "return"
    /\ result.status = pyint(1)

\* the values of the premerge flag with which _filemerge may be called next
nextcalls ==
    IF pc = "start" THEN BOOLEAN
    ELSE IF pc = "premerged" /\ result.kind = "return" /\ ~result.completed
    THEN {FALSE}
    ELSE {}

\* the backup of the call out is the one there was, or the one it made
backuppreserved(out) ==
    /\ back.exists => out.m.back = back
    /\ "backup" \in out.m.ran =>
           /\ out.m.back.exists
           /\ out.m.back.data = wfile.data

\* the status of a returned outcome is not 0
returnsnonzero(res) ==
    /\ res.kind = "return"
    /\ res.completed
    /\ ~res.status.none
    /\ res.status.v # 0

\* the failure policy as C15 states it, for the call out made with the
\* answers nd
onfailurepolicy(out, nd) ==
    /\ "onfailure" \in out.m.ran =>
           /\ "strategy" \in out.m.ran
           /\ backuppreserved(out)
           /\ cfg.onfailure = "halt" =>
                  out.result = raisederror("InterventionRequired")
           /\ cfg.onfailure = "prompt" =>
                  IF nd.failans THEN returnsnonzero(out.result)
                  ELSE out.result = raisederror("InterventionRequired")
           /\ cfg.onfailure \notin {"halt", "prompt"} =>
                  returnsnonzero(out.result)
    /\ ("strategy" \in out.m.ran /\ returnsnonzero(out.result)) =>
           /\ "onfailure" \in out.m.ran
           /\ cfg.onfailure # "halt"
           /\ cfg.onfailure = "prompt" => nd.failans

\* C15: on disk, when the strategy of a full-merge or merge-only tool ends,
\* after the post-check, with a status other than 0, "halt" raises
\* InterventionRequired, "prompt" raises it exactly when the answer is no,
\* and any other value of merge.on-failure returns (True, status, deleted);
\* the backup is kept in every case.
C15_OnFailurePolicy ==
    \A pm \in nextcalls :
        ~req.inmemory =>
            \A nd \in ndchoices(pm) :
                onfailurepolicy(_filemerge(pm, req, cfg, machine, nd), nd)

C15_Witness ==
    /\ pc = "resolved"
    /\ ~req.inmemory
    /\ cfg.onfailure = "prompt"
    /\ "onfailure" \in ran
    /\ result = raisederror("InterventionRequired")
    /\ back.exists
    /\ back.data = req.fcd.data

\* C16: in an in-memory working context, a call whose tool is not a no-merge
\* tool and whose strategy ran never returns a status other than 0: it
\* raises InMemoryMergeConflictsError instead.
C16_InMemoryAlwaysRaises ==
    (/\ called
     /\ req.inmemory
     /\ pickedmergetype \in {mergeonly, fullmerge}
     /\ "strategy" \in ran
     /\ result.kind = "return") => cleanstatus


C16_Witness ==
    /\ called
    /\ req.inmemory
    /\ pickedtool = ":merge-other"
    /\ "strategy" \in ran
    /\ "check" \in ran
    /\ wfile.data = req.fco.data
    /\ result = returned(TRUE, pyint(1), pybool(FALSE))


\* C17: in an in-memory context the abort strategy raises AbortMergeToolError
\* exactly when the merge it runs leaves conflicts; when that merge is clean
\* the call raises nothing and returns status 0.
C17_AbortOnlyOnConflicts ==
    (/\ called
     /\ req.inmemory
     /\ pickedtool = ":abort"
     /\ "strategy" \in ran) =>
        IF hasconflictmarkers(wfile.data)
        THEN result = raisederror("AbortMergeToolError")
        ELSE cleanstatus


C17_Witness ==
    /\ pc = "merged"
    /\ req.inmemory
    /\ pickedtool = ":abort"
    /\ "strategy" \in ran
    /\ ~hasconflictmarkers(wfile.data)
    /\ wfile.data = req.fcd.data \o req.fco.data
    /\ result = raisederror("AbortMergeToolError")


\* the last call was made with a no-merge tool
nomergecall == called /\ pickedmergetype = nomerge

\* what the strategy of the no-merge tool returns or raises on the request
nomergeoutcomes ==
    LET uselocal == returned(TRUE, pyint(0), pybool(req.fcd.absent))
        useother == returned(TRUE, pyint(0), pybool(req.fco.absent))
        unresolved == returned(TRUE, pyint(1), pybool(FALSE))
    IN  IF pickedtool = ":local" THEN {uselocal}
        ELSE IF pickedtool = ":other" THEN {useother}
        ELSE IF pickedtool = ":fail" THEN {unresolved}
        ELSE IF req.inmemory THEN {raisederror("InMemoryMergeConflictsError")}
        ELSE {uselocal, useother, unresolved}

PrecheckedTools == PrecheckedFullMerges \cup {":merge-local", ":merge-other"}

\* this step is an on-disk call with a tool whose precheck fails
precheckfails ==
    /\ calling
    /\ ~req.inmemory
    /\ normalizetool(picked'[1]) \in PrecheckedTools
    /\ (pin'.symlink \/ req.fcd.absent \/ req.fco.absent)

\* C19: when the precheck of the chosen tool fails on disk, the call returns
\* (True, 1, False) before any backup is made; the strategy does not run,
\* the destination is not written and merge.on-failure is not consulted.
C19_PrecheckFailure ==
    [][precheckfails =>
          /\ result' = returned(TRUE, pyint(1), pybool(FALSE))
          /\ ran' \cap {"backup", "simplemerge", "strategy", "check", "onfailure"} = {}
          /\ ~back'.exists
          /\ wfile' = wfile
          /\ back' = back
          /\ sidecar' = sidecar
          /\ temps' = temps]_vars

C19_Witness ==
    /\ pc = "premerged"
    /\ ~req.inmemory
    /\ pickedtool = ":merge-local"
    /\ cfg.onfailure = "halt"
    /\ pin.symlink
    /\ "precheckfailed" \in ran
    /\ result = returned(TRUE, pyint(1), pybool(FALSE))
    /\ wfile = writefile(req.fcd.data, req.fcd.flags)
    /\ ~back.exists


\* the tool of the call out has the conflict scan on, and the line-ending
\* fix, which rewrites the destination after the scan, off
scanson(out) ==
    /\ "check" \in out.m.ran
    /\ out.result.kind = "return"
    /\ \/ _toolbool(cfg, normalizetool(out.picked[1]), "checkconflicts")
       \/ "conflicts" \in _toollist(cfg, normalizetool(out.picked[1]), "check")
    /\ ~_toolbool(cfg, normalizetool(out.picked[1]), "fixeol")

\* no other post-check of the tool can change the status
scansalone(out) ==
    /\ _toollist(cfg, normalizetool(out.picked[1]), "check") \subseteq {"conflicts"}
    /\ ~_toolbool(cfg, normalizetool(out.picked[1]), "checkchanged")

\* a line that starts with "<<<<<<< " or ">>>>>>> "
outermarkerline(l) == l[1] \in {"<<<<<<< ", ">>>>>>> "}

\* a line that is "=======" and its line ending
separatorline(l) == l[1] = "=======" /\ l[2] = ""

\* the status of the call out, whose strategy ended with status nd.exit, when
\* marked tells whether the destination has a marker line
scanforces(out, nd, marked) ==
    scanson(out) =>
        /\ marked => returnsnonzero(out.result)
        /\ (~marked /\ scansalone(out)) =>
               out.result = returned(TRUE, pyint(nd.exit), pybool(FALSE))

scananyline(out, nd) ==
    scanforces(out, nd,
               \E i \in DOMAIN out.m.wfile.data :
                   \/ outermarkerline(out.m.wfile.data[i])
                   \/ separatorline(out.m.wfile.data[i]))

scanlfline(out, nd) ==
    scanforces(out, nd,
               \E i \in DOMAIN out.m.wfile.data :
                   \/ outermarkerline(out.m.wfile.data[i])
                   \/ /\ separatorline(out.m.wfile.data[i])
                      /\ out.m.wfile.data[i][3] # "\r\n")

\* C20 as stated: with checkconflicts set or "conflicts" in the check list,
\* a status of 0 becomes 1 when the destination has a line that is exactly
\* "=======" or starts with "<<<<<<< " or ">>>>>>> ", and the scan leaves the
\* status as it is when there is no such line.
C20_ScanAnySeparator ==
    \A pm \in nextcalls : \A nd \in ndchoices(pm) :
        scananyline(_filemerge(pm, req, cfg, machine, nd), nd)

\* C20 amended: the "=======" line counts only when it ends in "\n" or ends
\* the data; a "=======" line that ends in "\r\n" is not a match, and a
\* destination with no other marker line keeps its status.
C20_ScanLfSeparator ==
    \A pm \in nextcalls : \A nd \in ndchoices(pm) :
        scanlfline(_filemerge(pm, req, cfg, machine, nd), nd)

C20_Witness ==
    /\ called
    /\ pickedtool = "kdiff3"
    /\ _toollist(cfg, "kdiff3", "check") = {"conflicts"}
    /\ ~_toolbool(cfg, "kdiff3", "fixeol")
    /\ "check" \in ran
    /\ wfile.data = req.fcd.data \o << <<"=======", "", "\n">> >> \o req.fco.data
    /\ result = returned(TRUE, pyint(1), pybool(FALSE))


\* premerge() has returned from a call with a full-merge tool
premergereturned ==
    /\ pc = "premerged"
    /\ pickedmergetype = fullmerge
    /\ result.kind = "return"

\* the outcome (completed = (status == 0), status, False)
completediffclean ==
    /\ ~result.status.none
    /\ result.completed = (result.status.v = 0)
    /\ result.deleted = pybool(FALSE)

\* C21 as stated: premerge() with a full-merge tool runs neither the main
\* strategy nor the post-check nor the failure policy, and its outcome is
\* (completed = (status == 0), status, False).
C21_PremergeOnlyAlways ==
    premergereturned =>
        /\ ran \cap {"strategy", "check", "onfailure"} = {}
        /\ completediffclean

\* C21 amended: the outcome is (completed = (status == 0), status, False)
\* when the precheck of the tool passes; when it fails (a symlink given to
\* merge, merge3 or union) premerge() returns (True, 1, False) on disk.
\* In both cases the main strategy, the post-check and the failure policy
\* do not run.
C21_PremergeOnly ==
    premergereturned =>
        /\ ran \cap {"strategy", "check", "onfailure"} = {}
        /\ IF pin.symlink /\ pickedtool \in PrecheckedFullMerges
           THEN /\ result = returned(TRUE, pyint(1), pybool(FALSE))
                /\ "simplemerge" \notin ran
           ELSE completediffclean

C21_Witness ==
    /\ premergereturned
    /\ pickedtool = "kdiff3"
    /\ ~req.inmemory
    /\ "simplemerge" \in ran
    /\ "restore" \in ran
    /\ result = returned(FALSE, pyint(1), pybool(FALSE))
    /\ xcmd = nocmd
    /\ back.exists
    /\ ENABLED filemerge


\* the tool C22 names for the answer: index 0 is "keep local", or "changed"
\* when one side is absent; index 1 is "take other", "delete" or "leave
\* deleted"; index 2 is "unresolved"; 3 stands for no response
answeredtool(choice) ==
    IF choice >= 2 THEN ":fail"
    ELSE IF req.fco.absent THEN <<":local", ":other">>[choice + 1]
    ELSE IF req.fcd.absent THEN <<":other", ":local">>[choice + 1]
    ELSE <<":local", ":other">>[choice + 1]

\* the two calls end alike: same outcome, same files, same steps but for
\* the prompt itself
sameoutcome(a, b) ==
    /\ a.result = b.result
    /\ a.m.wfile = b.m.wfile
    /\ a.m.back = b.m.back
    /\ a.m.sidecar = b.m.sidecar
    /\ a.m.temps = b.m.temps
    /\ a.m.ran \ {"prompt"} = b.m.ran

promptdispatches(out, nd, pm) ==
    (~req.inmemory /\ normalizetool(out.picked[1]) = ":prompt") =>
        /\ "prompt" \in out.m.ran
        /\ sameoutcome(out,
                       _filemerge(pm, req,
                                  [cfg EXCEPT !.forcemerge = answeredtool(nd.choice)],
                                  machine, nd))

\* C22: on disk the prompt strategy does what local does when the answer is
\* "keep local" ("changed" when the other side is deleted, "leave deleted"
\* when the local side is), what other does when it is "take other"
\* ("delete", or "changed" when the local side is deleted), and what fail
\* does when it is "unresolved" or when there is no response.
C22_PromptDispatch ==
    \A pm \in nextcalls : \A nd \in ndchoices(pm) :
        promptdispatches(_filemerge(pm, req, cfg, machine, nd), nd, pm)

C22_Witness ==
    /\ called
    /\ ~req.inmemory
    /\ pickedtool = ":prompt"
    /\ req.fcd.absent
    /\ ran = {"picktool", "prompt", "local"}
    /\ ~wfile.exists
    /\ result = returned(TRUE, pyint(0), pybool(TRUE))


\* the args template of the tool mentions $output
mentionsoutput(tool) ==
    \E i \in DOMAIN _toolstr(cfg, tool, "args") :
        _toolstr(cfg, tool, "args")[i] = "$output"

\* the word of the command line that C23 gives for a word of the template
substituted(word, useout) ==
    IF word = "$local" THEN (IF useout THEN "backup" ELSE "dest")
    ELSE IF word = "$output" THEN (IF useout THEN "dest" ELSE "")
    ELSE IF word = "$base" THEN "~base"
    ELSE IF word = "$other" THEN "~other"
    ELSE word

\* no post-check is configured for the tool
nopostcheck(tool) ==
    /\ _toollist(cfg, tool, "check") = {}
    /\ ~_toolbool(cfg, tool, "checkconflicts")
    /\ ~_toolbool(cfg, tool, "checkchanged")

\* the call out launched the tool as C23 says, nd.exit being its exit code
launchedasstated(out, nd) ==
    (out.m.xcmd # nocmd /\ "strategy" \in out.m.ran) =>
        /\ out.m.xcmd.tool = normalizetool(out.picked[1])
        /\ Len(out.m.xcmd.cmd) = 1 + Len(_toolstr(cfg, out.m.xcmd.tool, "args"))
        /\ out.m.xcmd.cmd[1] = out.picked[2]
        /\ \A i \in DOMAIN _toolstr(cfg, out.m.xcmd.tool, "args") :
               out.m.xcmd.cmd[i + 1] =
                   substituted(_toolstr(cfg, out.m.xcmd.tool, "args")[i],
                               mentionsoutput(out.m.xcmd.tool))
        /\ out.m.temps = {}
        /\ (nopostcheck(out.m.xcmd.tool) /\ out.result.kind = "return") =>
               out.result = returned(TRUE, pyint(nd.exit), pybool(FALSE))

\* C23: when the args template of an external tool mentions $output, $local
\* becomes the backup's path and $output the destination's; otherwise $local
\* is the destination's path and $output is empty; $base and $other are the
\* temp files of the ancestor and of the other side.  The exit code of the
\* process is the status of the strategy.
C23_Substitution ==
    \A pm \in nextcalls : \A nd \in ndchoices(pm) :
        launchedasstated(_filemerge(pm, req, cfg, machine, nd), nd)

C23_Witness ==
    /\ pc = "resolved"
    /\ "strategy" \in ran
    /\ pickedtool = "kdiff3"
    /\ nopostcheck("kdiff3")
    /\ mentionsoutput("kdiff3")
    /\ xcmd # nocmd
    /\ xcmd.cmd = <<picked[2], "backup", "~base", "~other", "-o", "dest">>
    /\ result = returned(TRUE, pyint(1), pybool(FALSE))
    /\ temps = {}


\* C24: the default label list is ["local", "other"] whatever merges were
\* made before, so a merge whose request gives no labels works with exactly
\* these two.
C24_DefaultLabelsKept == defaultconflictlabels = <<"local", "other">>

C24_Witness ==
    /\ called
    /\ pickedtool = ":merge"
    /\ cfg.mergemarkers = "basic"
    /\ req.labels = <<>>
    /\ "strategy" \in ran
    /\ defaultconflictlabels = <<"local", "other", "base">>
    /\ \E i \in DOMAIN wfile.data : wfile.data[i] = <<"||||||| ", "base", "\n">>
    /\ result = returned(TRUE, pyint(1), pybool(FALSE))


\* the tool passes the capability filter for the file
passesfilter(t) == check(cfg, t, NoneV, pin.symlink, pin.binary, pin.changedelete)

\* the pool step returned the first candidate that passes the filter, or
\* its last resort (whose path is None) when none does
firstcapablepicked ==
    LET tools == poolcandidates(cfg, pin.changedelete)
    IN  /\ (\E i \in DOMAIN tools : passesfilter(tools[i])) =>
               \E i \in DOMAIN tools :
                   /\ picked[1] = tools[i]
                   /\ passesfilter(tools[i])
                   /\ \A j \in 1..(i - 1) : ~passesfilter(tools[j])
        /\ picked[2] # NoneV => passesfilter(picked[1])

\* C25 as stated: in the pool step the first candidate of [ui.merge, the
\* enabled merge-tools by descending priority, hgmerge] that passes the
\* capability filter is returned, and no tool that fails the filter is,
\* the ui.merge tool included.
C25_PoolFirstCapable == InPoolStep => firstcapablepicked

\* C25 amended: when ui.merge is set, is not a name of the merge-tools
\* section and change_delete is false, it is returned at once, unchecked,
\* as (ui.merge, ui.merge); otherwise the statement holds.
C25_PoolFirstCapableOrUiMerge ==
    InPoolStep =>
        IF cfg.uimerge # "" /\ cfg.uimerge \notin poolnames(cfg) /\ ~pin.changedelete
        THEN picked = <<cfg.uimerge, cfg.uimerge>>
        ELSE firstcapablepicked

C25_Witness ==
    /\ InPoolStep
    /\ cfg.uimerge = "kdiff3"
    /\ poolnames(cfg) = {"meld"}
    /\ passesfilter("meld")
    /\ ~passesfilter("kdiff3")
    /\ pin.symlink
    /\ ~pin.changedelete
    /\ picked = <<"kdiff3", "kdiff3">>


\* the "output file appears unchanged" prompt was shown in the call out:
\* the check is on, no "prompt" check took its place, and the destination
\* is the backup's content
changedasked(out) ==
    /\ \/ _toolbool(cfg, normalizetool(out.picked[1]), "checkchanged")
       \/ "changed" \in _toollist(cfg, normalizetool(out.picked[1]), "check")
    /\ "prompt" \notin _toollist(cfg, normalizetool(out.picked[1]), "check")
    /\ back.exists
    /\ out.m.wfile.data = back.data

\* the status of the call out against the status nd.exit of its strategy
postcheckraises(out, nd) ==
    ("check" \in out.m.ran /\ out.result.kind = "return") =>
        /\ ~out.result.status.none
        /\ nd.exit # 0 => out.result.status.v # 0
        /\ out.result.status.v \in {nd.exit, 1}
        /\ out.result.status.v = 0 =>
               /\ nd.exit = 0
               /\ "prompt" \in _toollist(cfg, normalizetool(out.picked[1]), "check") =>
                      nd.checkans
               /\ ~_toolbool(cfg, normalizetool(out.picked[1]), "fixeol") =>
                      /\ "conflicts" \in _toollist(cfg, normalizetool(out.picked[1]), "check") =>
                             ~hasconflictmarkers(out.m.wfile.data)
                      /\ changedasked(out) => nd.changedans

\* C26: the post-check never lowers a status.  A strategy status other than
\* 0 stays other than 0, and the status after the post-check is 0 only when
\* the strategy's was 0, the conflict scan, if on, found no marker, and no
\* prompt was answered no.
C26_PostCheckNeverLowers ==
    \A pm \in nextcalls : \A nd \in ndchoices(pm) :
        postcheckraises(_filemerge(pm, req, cfg, machine, nd), nd)

C26_Witness ==
    /\ pc = "resolved"
    /\ pickedtool = "kdiff3"
    /\ "check" \in ran
    /\ _toollist(cfg, "kdiff3", "check") = {"conflicts", "prompt", "changed"}
    /\ ~hasconflictmarkers(wfile.data)
    /\ wfile.data = req.fcd.data \o req.fco.data
    /\ result = returned(TRUE, pyint(0), pybool(FALSE))
    /\ ~back.exists


\* C27: an outcome with completed false comes only from premerge() with a
\* full-merge tool whose premerge ended with a status other than 0; every
\* return of filemerge(), whatever the tool, and every return of premerge()
\* with a no-merge or merge-only tool has completed true.
C27_IncompleteOnlyFromPremerge ==
    (called /\ result.kind = "return") =>
        /\ ~result.completed =>
               /\ pc = "premerged"
               /\ pickedmergetype = fullmerge
               /\ ran \cap {"strategy", "precheckfailed"} = {}
               /\ ~result.status.none
               /\ result.status.v # 0
        /\ pc \in {"merged", "resolved"} => result.completed
        /\ pickedmergetype \in {nomerge, mergeonly} => result.completed

C27_Witness ==
    /\ pc = "resolved"
    /\ pickedtool = "kdiff3"
    /\ cfg.onfailure = "stop"
    /\ xcmd # nocmd
    /\ "onfailure" \in ran
    /\ result = returned(TRUE, pyint(1), pybool(FALSE))
    /\ back.exists

=============================================================================
